---------------------------- MODULE Spec2Model ----------------------------
(***************************************************************************)
(* A model of cabrogger/fabfile.py, the Fabric deployment script.          *)
(*                                                                         *)
(* One fab process is modelled: its module globals (env.settings,          *)
(* env.hosts, env.roledefs, the cached boto connections, the runs_once     *)
(* memo of deploystatic), the file system of each remote host as far as    *)
(* the script reads or writes it.  Every task of the fabfile is one action; *)
(* the action is the task's whole body on one host, with every helper it   *)
(* calls.                                                                  *)
(*                                                                         *)
(* `observed` is a history variable: the record of one task of the run     *)
(* (its arguments, the state it started from and everything it did to the  *)
(* outside world, in order).  A run is followed until one of its tasks has *)
(* been recorded; any task of any run can be the recorded one, so a        *)
(* statement about `observed` and the state the task leaves is a statement *)
(* about every execution of a task.                                        *)
(*                                                                         *)
(* Text is modelled as sequences of one-character strings, so that         *)
(* str.lower, str.startswith and the role regular expression are computed  *)
(* and not assumed.                                                        *)
(*                                                                         *)
(* A remote command fails (and Fabric aborts the process) exactly when the *)
(* host's file system makes it fail: git clone into an existing directory, *)
(* git pull without a checkout, pip without a virtualenv, ln onto an       *)
(* existing name.  Failures from outside the modelled state (a dropped     *)
(* connection) are not modelled.                                           *)
(***************************************************************************)
EXTENDS Naturals, Sequences, FiniteSets, TLC

(***************************************************************************)
(* Bounds of the model.                                                    *)
(***************************************************************************)
\* Environment selections (stg, prd) in one fab process: each one appends to
\* env.roledefs, which is never cleared.
MaxEnvSelect == 2
\* Local static files that match fnpattern.
MaxStaticFiles == 1
\* Instances the EC2 API returns in the role-lookup specification.
MaxInstances == 2

(***************************************************************************)
(* Text.                                                                   *)
(***************************************************************************)
UpperCase == <<"A","B","C","D","E","F","G","H","I","J","K","L","M",
               "N","O","P","Q","R","S","T","U","V","W","X","Y","Z">>
LowerCase == <<"a","b","c","d","e","f","g","h","i","j","k","l","m",
               "n","o","p","q","r","s","t","u","v","w","x","y","z">>
Letters == {UpperCase[i] : i \in 1..26} \cup {LowerCase[i] : i \in 1..26}
Digits == {"0","1","2","3","4","5","6","7","8","9"}

\* str.lower on one character
LowerChar(c) ==
    IF \E i \in 1..26 : UpperCase[i] = c
    THEN LowerCase[CHOOSE i \in 1..26 : UpperCase[i] = c]
    ELSE c

\* str.lower
Lower(s) == [i \in 1..Len(s) |-> LowerChar(s[i])]

\* str.startswith
StartsWith(s, p) == Len(s) >= Len(p) /\ SubSeq(s, 1, Len(p)) = p

\* _do without the call of lower(): only a lower-case y counts
DoCaseSensitive(yes_no) == StartsWith(yes_no, <<"y">>)

\* _do(yes_no): yes_no.lower().startswith('y')
Do(yes_no) == StartsWith(Lower(yes_no), <<"y">>)


(***************************************************************************)
(* Roles and the EC2 role lookup.                                          *)
(***************************************************************************)
App == <<"a","p","p">>
Work == <<"w","o","r","k">>
Pgis == <<"p","g","i","s">>
Mongo == <<"m","o","n","g","o">>

\* env.roledefs as the module sets it: { 'app':[], 'work':[], 'pgis':[], 'mongo':[] }
InitialRoledefs == [r \in {App, Work, Pgis, Mongo} |-> <<>>]

\* The text of env.settings, as the regular expression is built from it.
SettingsText(s) ==
    CASE s = "stg" -> <<"s","t","g">>
      [] s = "prd" -> <<"p","r","d">>
      [] OTHER -> <<>>

\* The number of letters of s from position i on ([a-zA-Z]*, greedy).
RECURSIVE LetterRun(_, _)
LetterRun(s, i) ==
    IF i <= Len(s) /\ s[i] \in Letters THEN 1 + LetterRun(s, i + 1) ELSE 0

\* regex.match(name) for r'<env>-(?P<role>[a-zA-Z]+)[0-9]+': the group 'role',
\* or <<>> when there is no match.  match() anchors at the start of the tag
\* only; the letters are taken greedily and at least one digit must follow.
RoleMatch(envText, name) ==
    LET n == Len(envText)
        k == LetterRun(name, n + 2)
    IN  IF /\ Len(name) >= n + 1
           /\ SubSeq(name, 1, n) = envText
           /\ name[n + 1] = "-"
           /\ k >= 1
           /\ Len(name) >= n + 2 + k
           /\ name[n + 2 + k] \in Digits
        THEN SubSeq(name, n + 2, n + 1 + k)
        ELSE <<>>

\* i.tags.get('Name', '')
NameTag(inst) == IF inst.hasName THEN inst.name ELSE <<>>

\* '%s@%s' % (env.app_user, i.public_dns_name)
HostString(inst) == <<"apps", inst.dns>>

\* The loop of _lookup_ec2_instances over the instances from position i on:
\* the role lists, and whether the loop ended in a KeyError (a matched role
\* that is no key of env.roledefs).
RECURSIVE LookupLoop(_, _, _, _)
LookupLoop(rd, insts, i, envText) ==
    IF i > Len(insts) THEN [roledefs |-> rd, keyError |-> FALSE]
    ELSE LET role == RoleMatch(envText, NameTag(insts[i]))
         IN  IF role = <<>> THEN LookupLoop(rd, insts, i + 1, envText)
             ELSE IF role \notin DOMAIN rd
                  THEN [roledefs |-> rd, keyError |-> TRUE]
                  ELSE LookupLoop([rd EXCEPT ![role] = Append(@, HostString(insts[i]))],
                                  insts, i + 1, envText)

(***************************************************************************)
(* State.                                                                  *)
(***************************************************************************)
VARIABLES
    settings,   \* env.settings: "none" while unset, then "stg" or "prd"
    hosts,      \* env.hosts: the hosts given with -H (dns names), fixed
    roledefs,   \* env.roledefs: role -> list of host strings
    lookedUp,   \* whether _lookup_ec2_instances has run to its end
    nsel,       \* environment selections so far
    ec2con,     \* _ec2_con is not None
    s3con,      \* _s3_con is not None
    staticRan,  \* deploystatic has returned once (the memo of @runs_once)
    proc,       \* "running", or how the process ended: "exited" (sys.exit),
                \* "aborted" (Fabric's abort), "crashed" (uncaught exception)
    fs,         \* per remote host: what the script reads and writes there
    observed,   \* the recorded task: name, host, arguments, the state before
                \* it and what it did, in order; NoOp while none is recorded
    creds,      \* the AWS credentials boto finds: "none", "bad" or "ok"
    repo,       \* the files of the git repository the script tests for
    ec2         \* the instances the EC2 API returns

vars == <<settings, hosts, roledefs, lookedUp, nsel, ec2con, s3con, staticRan,
          proc, fs, observed, creds, repo, ec2>>

Hosts == {"h1", "h2"}

\* A host before setup: nothing of the project is there.
FreshHost ==
    [ssh |-> {}, project |-> FALSE, log |-> FALSE, ve |-> "absent", link |-> <<>>]

\* AWS_CREDENTIALS_ERR_MSG
AwsCredentialsErrMsg == "Unable to connect to AWS. Check your credentials."

(***************************************************************************)
(* The running task: the part of the state a task body changes, threaded   *)
(* through its statements.  w.tr is what the task did so far.  Once        *)
(* w.proc is not "running" the process has ended and no statement acts.    *)
(***************************************************************************)
Alive(w) == w.proc = "running"

Log(w, e) == [w EXCEPT !.tr = Append(@, e)]

\* The function body `name` is entered, at call depth d below the task.
Enter(w, name, d) == IF Alive(w) THEN Log(w, <<"call", name, d>>) ELSE w

\* print
Say(w, msg) == IF Alive(w) THEN Log(w, <<"print", msg, "">>) ELSE w

\* An uncaught exception, sys.exit, or Fabric's abort.
End(w, how, what) ==
    IF Alive(w) THEN [Log(w, <<how, what, "">>) EXCEPT !.proc = how] ELSE w

\* require('settings', provided_by=[prd, stg]): aborts when env.settings is unset.
Require(w) ==
    IF settings = "none" THEN End(w, "aborted", "require settings") ELSE w

\* os.path.exists on the remote host (fabric.contrib.files.exists: test -e,
\* which follows a symbolic link).
PathExists(f, path) ==
    CASE path \in {"known_hosts", "config", "github.key"} -> path \in f.ssh
      [] path \in {"apache", "apache.maintenance", "requirements.txt"} ->
            f.project /\ path \in repo
      [] path = "apache_link" -> f.link # <<>>
      [] OTHER -> FALSE

\* exists(path) on host h: the test is a remote command of its own.
Test(w, h, path) == IF Alive(w) THEN Log(w, <<"test", h, path>>) ELSE w

\* Whether the shell command exits with 0 on a host in state f.
CmdSucceeds(c, f) ==
    CASE c = "git clone" -> ~f.project
      [] c = "git pull" -> f.project
      [] c = "echo SECRET_KEY" -> f.project
      [] c = "pip install" -> f.project /\ f.ve = "venv"
      [] c = "rm apache_link" -> f.link # <<>>
      [] c \in {"ln apache", "ln apache.maintenance"} -> f.link = <<>>
      [] OTHER -> TRUE

\* What the shell command leaves behind on a host in state f.
CmdEffect(c, f) ==
    CASE c = "mkdir log" -> [f EXCEPT !.log = TRUE]
      [] c = "mkdir ve" -> [f EXCEPT !.ve = IF @ = "absent" THEN "dir" ELSE @]
      [] c = "virtualenv" -> [f EXCEPT !.ve = "venv"]
      [] c = "git clone" -> [f EXCEPT !.project = TRUE]
      [] c = "rm apache_link" -> [f EXCEPT !.link = <<>>]
      [] c = "ln apache" -> [f EXCEPT !.link = <<settings, "apache">>]
      [] c = "ln apache.maintenance" ->
            [f EXCEPT !.link = <<settings, "apache.maintenance">>]
      [] c = "rm -rf project" -> [f EXCEPT !.project = FALSE]
      [] c = "rm -rf log" -> [f EXCEPT !.log = FALSE]
      [] c = "rm -rf ve" -> [f EXCEPT !.ve = "absent"]
      [] OTHER -> f

\* run(command) on host h: Fabric aborts the process on a non-zero exit.
Run(w, h, c) ==
    IF ~Alive(w) THEN w
    ELSE IF CmdSucceeds(c, w.fs[h])
         THEN [Log(w, <<"run", h, c>>) EXCEPT !.fs[h] = CmdEffect(c, @)]
         ELSE End(Log(w, <<"run", h, c>>), "aborted", c)

(***************************************************************************)
(* Helpers of the fabfile.                                                 *)
(***************************************************************************)
\* _get_s3_con that prints the message and goes on without a connection.
GetS3ConNoExit(w) ==
    IF ~Alive(w) \/ w.s3con THEN w
    ELSE IF creds = "none"
         THEN Say(Log(w, <<"connect", "s3", "NoAuthHandlerFound">>),
                  AwsCredentialsErrMsg)
         ELSE [Log(w, <<"connect", "s3", "ok">>) EXCEPT !.s3con = TRUE]

\* _get_s3_con(): the cached connection, or boto.connect_s3(); without
\* credentials it prints AWS_CREDENTIALS_ERR_MSG and calls sys.exit(0).
GetS3Con(w) ==
    IF ~Alive(w) \/ w.s3con THEN w
    ELSE IF creds = "none"
         THEN End(Say(Log(w, <<"connect", "s3", "NoAuthHandlerFound">>),
                      AwsCredentialsErrMsg),
                  "exited", "sys.exit")
         ELSE [Log(w, <<"connect", "s3", "ok">>) EXCEPT !.s3con = TRUE]

\* get_bucket(bucket_name): S3 refuses credentials it does not know, and
\* nothing catches the S3ResponseError.
GetBucket(w, bucket) ==
    LET w1 == GetS3Con(w)
    IN  IF Alive(w1) /\ creds = "bad"
        THEN End(w1, "crashed", "S3ResponseError")
        ELSE w1

\* _copy_from_s3(bucket_name, resource, dest_path)
CopyFromS3(w, h, resource) ==
    LET w1 == GetBucket(w, "knightlab.ops")
    IN  IF ~Alive(w1) THEN w1
        ELSE [Log(Log(w1, <<"s3get", "knightlab.ops", resource>>),
                  <<"put", h, resource>>)
                EXCEPT !.fs[h].ssh = @ \cup {resource}]

\* One file of _setup_ssh: copied only when it is not there yet.
SshFile(w, h, file) ==
    LET w1 == Test(w, h, file)
    IN  IF Alive(w1) /\ ~PathExists(w1.fs[h], file)
        THEN CopyFromS3(w1, h, file)
        ELSE w1

\* _setup_ssh()
SetupSsh(w, h) ==
    LET w1 == SshFile(w, h, "known_hosts")
        w2 == SshFile(w1, h, "config")
        w3 == Test(w2, h, "github.key")
    IN  IF Alive(w3) /\ ~PathExists(w3.fs[h], "github.key")
        THEN Run(CopyFromS3(w3, h, "github.key"), h, "chmod github.key")
        ELSE w3

\* _setup_directories()
SetupDirectories(w, h) ==
    Run(Run(Run(w, h, "mkdir sites"), h, "mkdir log"), h, "mkdir ve")

\* _setup_virtualenv(): VIRTUALENV_SYSTEM_SITE_PACKAGES is False
SetupVirtualenv(w, h) == Run(w, h, "virtualenv")

\* _clone_repo()
CloneRepo(w, h) == Run(w, h, "git clone")

\* _build_django_siteconf()
BuildDjangoSiteconf(w, h) == Run(Require(w), h, "echo SECRET_KEY")

\* _install_requirements(), with _run_in_ve
InstallRequirements(w, h, d) ==
    LET w1 == Test(Enter(w, "_install_requirements", d), h, "requirements.txt")
    IN  IF Alive(w1) /\ PathExists(w1.fs[h], "requirements.txt")
        THEN Run(w1, h, "pip install")
        ELSE w1

\* _symlink(existing, link) for the Apache link
Symlink(w, h, conf) ==
    LET w1 == Test(w, h, "apache_link")
        w2 == IF Alive(w1) /\ PathExists(w1.fs[h], "apache_link")
              THEN Run(w1, h, "rm apache_link")
              ELSE w1
    IN  Run(w2, h, IF conf = "apache" THEN "ln apache" ELSE "ln apache.maintenance")

\* _link_apache_conf(maint): links conf/<env>/<link_file> when that file exists
LinkApacheConf(w, h, maint) ==
    LET conf == IF maint THEN "apache.maintenance" ELSE "apache"
        w1 == Test(w, h, conf)
    IN  IF Alive(w1) /\ PathExists(w1.fs[h], conf)
        THEN Symlink(Run(w1, h, "mkdir apache"), h, conf)
        ELSE w1

\* _setup_project(django)
SetupProject(w, h) ==
    InstallRequirements(
        BuildDjangoSiteconf(
            SetupVirtualenv(CloneRepo(SetupDirectories(SetupSsh(Require(w), h), h), h), h),
            h),
        h, "nested")

(***************************************************************************)
(* Task bodies.  d is "top" for a function the task calls itself and       *)
(* "nested" for one called further down.                                   *)
(***************************************************************************)
\* a2start()
A2startBody(w, h, d) ==
    Run(Require(Enter(w, "a2start", d)), h, "init.d/apache2 start")

\* a2stop(graceful)
A2stopBody(w, h, graceful, d) ==
    Run(Require(Enter(w, "a2stop", d)), h,
        IF Do(graceful) THEN "apache2ctl graceful-stop" ELSE "apache2ctl stop")

\* a2restart(graceful)
A2restartBody(w, h, graceful, d) ==
    Run(Require(Enter(w, "a2restart", d)), h,
        IF Do(graceful) THEN "apache2ctl graceful" ELSE "apache2ctl restart")

\* mrostart(): link the maintenance configuration, restart Apache
MrostartBody(w, h, d) ==
    A2restartBody(LinkApacheConf(Require(Enter(w, "mrostart", d)), h, TRUE),
                  h, <<"y">>, "nested")

\* mrostop(): link the normal configuration, restart Apache
MrostopBody(w, h, d) ==
    A2restartBody(LinkApacheConf(Require(Enter(w, "mrostop", d)), h, FALSE),
                  h, <<"y">>, "nested")

\* checkout(): there is no require('settings') in it
CheckoutBody(w, h, d) == Run(Enter(w, "checkout", d), h, "git pull")

\* The loop of deploystatic over the n matched files.
RECURSIVE Upload(_, _, _)
Upload(w, bucket, n) ==
    IF n = 0 \/ ~Alive(w) THEN w
    ELSE Upload(Log(Say(w, "Copying file"), <<"s3put", bucket, "public-read">>),
                bucket, n - 1)

\* deploystatic(fnpattern) under @runs_once: the body runs on the first call
\* that returns, later calls return the remembered value and do nothing.
\* gitClean: 'git status' reports a clean master branch; nfiles: the local
\* static files that match fnpattern.
DeploystaticBody(w, gitClean, nfiles, d) ==
    IF ~Alive(w) \/ w.ran THEN w
    ELSE
      LET w1 == Log(Enter(w, "deploystatic", d),
                    <<"local", "git status", IF gitClean THEN "clean" ELSE "dirty">>)
      IN  IF TRUE \/ gitClean
          THEN LET w2 == Say(w1, "deploying to S3 ...")
                   w3 == IF settings \in {"stg", "prd"} THEN w2
                         ELSE End(w2, "crashed", "env.settings")
                   bucket == IF settings = "stg" THEN "media.knilab.com"
                             ELSE "media.knightlab.us"
                   w4 == Upload(GetBucket(w3, bucket), bucket, nfiles)
                   w5 == IF nfiles = 0 THEN Say(w4, "Nothing to deploy") ELSE w4
               IN  [w5 EXCEPT !.ran = Alive(w5)]
          ELSE [Say(w1, "You have uncommitted local code changes.") EXCEPT !.ran = TRUE]

\* deploy with the static sync moved before the checkout
DeployStaticFirst(w, h, mro, restart, static, requirements, gitClean, nfiles) ==
    LET w0 == Require(w)
        w1 == IF Do(mro) THEN MrostartBody(w0, h, "top") ELSE w0
        w2 == IF Do(static) THEN DeploystaticBody(w1, gitClean, nfiles, "top") ELSE w1
        w3 == CheckoutBody(w2, h, "top")
        w4 == IF Do(requirements) THEN InstallRequirements(w3, h, "top") ELSE w3
    IN  IF Do(restart)
        THEN IF Do(mro) THEN MrostopBody(w4, h, "top")
             ELSE A2restartBody(w4, h, <<"y">>, "top")
        ELSE w4

\* deploy(mro, restart, static, requirements)
DeployBody(w, h, mro, restart, static, requirements, gitClean, nfiles) ==
    LET w0 == Require(w)
        w1 == IF Do(mro) THEN MrostartBody(w0, h, "top") ELSE w0
        w2 == CheckoutBody(w1, h, "top")
        w3 == IF Do(requirements) THEN InstallRequirements(w2, h, "top") ELSE w2
        w4 == IF Do(static) THEN DeploystaticBody(w3, gitClean, nfiles, "top") ELSE w3
    IN  IF Do(restart)
        THEN IF Do(mro) THEN MrostopBody(w4, h, "top")
             ELSE A2restartBody(w4, h, <<"y">>, "top")
        ELSE w4

\* destroy that removes the files before it asks
DestroyNoConfirm(w, h, answer) ==
    LET w0 == Require(w)
        w1 == Test(Say(w0, "This will remove all project files"), h, "apache_link")
        w2 == IF Alive(w1) /\ PathExists(w1.fs[h], "apache_link")
              THEN Run(w1, h, "rm apache_link")
              ELSE w1
        w3 == Run(Run(Run(w2, h, "rm -rf project"), h, "rm -rf log"), h, "rm -rf ve")
    IN  IF Alive(w3) THEN Log(w3, <<"prompt", "destroy", "">>) ELSE w3

\* destroy(): answer is what the user types at the prompt
DestroyBody(w, h, answer) ==
    LET w0 == Require(w)
        w1 == IF Alive(w0)
              THEN Log(Say(w0, "This will remove all project files"),
                       <<"prompt", "destroy", "">>)
              ELSE w0
    IN  IF ~Alive(w1) THEN w1
        ELSE IF ~Do(answer) THEN Say(w1, "aborting ...")
        ELSE LET w2 == Test(w1, h, "apache_link")
                 w3 == IF PathExists(w2.fs[h], "apache_link")
                       THEN Run(w2, h, "rm apache_link")
                       ELSE w2
             IN  Run(Run(Run(w3, h, "rm -rf project"), h, "rm -rf log"), h, "rm -rf ve")

\* Host lists without repeated hosts, in order (Fabric merges them so).
RECURSIVE Dedupe(_)
Dedupe(hs) ==
    IF hs = <<>> THEN <<>>
    ELSE LET rest == Dedupe(SubSeq(hs, 1, Len(hs) - 1))
             x == hs[Len(hs)]
         IN  IF \E i \in 1..Len(rest) : rest[i] = x THEN rest ELSE Append(rest, x)

\* execute(_setup_project) over the dns names hs from position i on
RECURSIVE SetupProjectOn(_, _, _)
SetupProjectOn(w, hs, i) ==
    IF i > Len(hs) THEN w ELSE SetupProjectOn(SetupProject(w, hs[i]), hs, i + 1)

\* execute(_link_apache_conf) over the dns names hs from position i on
RECURSIVE LinkApacheConfOn(_, _, _)
LinkApacheConfOn(w, hs, i) ==
    IF i > Len(hs) THEN w
    ELSE LinkApacheConfOn(LinkApacheConf(w, hs[i], FALSE), hs, i + 1)

\* The dns names of a list of host strings.
DnsNames(hostStrings) == Dedupe([i \in 1..Len(hostStrings) |-> hostStrings[i][2]])

\* setup(django) on host h.  execute() runs _setup_project on env.hosts and
\* _link_apache_conf on the hosts of role app; with an empty list either runs
\* once, on the host of the running task.
SetupBody(w, h) ==
    LET w0 == Require(Enter(w, "setup", "top"))
        w1 == SetupProjectOn(w0, IF hosts # <<>> THEN Dedupe(hosts) ELSE <<h>>, 1)
    IN  LinkApacheConfOn(w1, IF roledefs[App] # <<>> THEN DnsNames(roledefs[App])
                             ELSE <<h>>, 1)

\* The names bound in the module when a task runs: its imports and its own
\* definitions.  abort and local are not among them.
ModuleNames ==
    {"fnmatch", "os", "re", "sys", "tempfile", "boto", "choice", "ec2",
     "env", "put", "require", "run", "sudo", "cd", "prefix", "exists", "red",
     "warn", "execute", "roles", "runs_once"}

\* _run_in_ve_local(command); workon is os.getenv('WORKON_HOME'): "unset"
\* (None), "empty" ('') or "set".  A name that is not bound raises NameError.
RunInVeLocalBody(w, workon) ==
    LET w1 == IF workon \in {"unset", "empty"}
              THEN IF "abort" \in ModuleNames
                   THEN End(w, "aborted", "WORKON_HOME environment variable is not set!")
                   ELSE End(w, "crashed", "NameError: abort")
              ELSE w
    IN  IF ~Alive(w1) THEN w1
        ELSE IF "local" \in ModuleNames
             THEN Log(w1, <<"local", "source activate && command", "">>)
             ELSE End(w1, "crashed", "NameError: local")

\* hosts(): env.instances is never set
HostsBody(w) ==
    LET w0 == Require(w)
    IN  End(w0, "crashed", "AttributeError: instances")

\* genkey(): prints a random key
GenkeyBody(w) == Say(Say(w, ""), "random key")

(***************************************************************************)
(* The recorded task.                                                      *)
(***************************************************************************)
NoOp == [task |-> "", host |-> "", args |-> <<>>, tr |-> <<>>, pre |-> <<>>]

\* The process runs and no task has been recorded yet.
Running == proc = "running" /\ observed = NoOp

\* The task that ends now is recorded, or it is not.
Observe(task, h, args, tr) ==
    \E rec \in BOOLEAN :
        observed' = IF rec
                    THEN [task |-> task, host |-> h, args |-> args, tr |-> tr,
                          pre |-> [fs |-> fs, staticRan |-> staticRan,
                                   roledefs |-> roledefs, settings |-> settings]]
                    ELSE NoOp

(***************************************************************************)
(* Environment selection.                                                  *)
(***************************************************************************)
\* _get_ec2_con(): the cached connection, or boto.connect_ec2(); without
\* credentials it prints AWS_CREDENTIALS_ERR_MSG and calls sys.exit(0).
GetEc2Con(e) ==
    IF ~Alive(e) \/ e.ec2con THEN e
    ELSE IF creds = "none"
         THEN End(Say(Log(e, <<"connect", "ec2", "NoAuthHandlerFound">>),
                      AwsCredentialsErrMsg),
                  "exited", "sys.exit")
         ELSE [Log(e, <<"connect", "ec2", "ok">>) EXCEPT !.ec2con = TRUE]

\* _get_ec2_reservations(): an EC2ResponseError is printed, then sys.exit(0)
GetEc2Reservations(e) ==
    LET e1 == GetEc2Con(e)
    IN  IF Alive(e1) /\ creds = "bad"
        THEN End(Say(e1, "Received error from AWS. Are your credentials correct?"),
                 "exited", "sys.exit")
        ELSE IF Alive(e1) THEN Log(e1, <<"ec2", "get_all_instances", "">>)
        ELSE e1

\* _lookup_ec2_instances() with env.settings = envType
LookupEc2Instances(e, envType) ==
    LET e1 == GetEc2Reservations(e)
        r == LookupLoop(e1.roledefs, ec2, 1, SettingsText(envType))
    IN  IF ~Alive(e1) THEN e1
        ELSE IF r.keyError
             THEN End([e1 EXCEPT !.roledefs = r.roledefs], "crashed", "KeyError")
             ELSE [e1 EXCEPT !.roledefs = r.roledefs, !.lookedUp = TRUE]

\* _setup_env(env_type): the lookup is skipped when hosts were given with -H
SetupEnv(envType) ==
    LET e0 == [tr |-> <<>>, proc |-> proc, ec2con |-> ec2con,
               roledefs |-> roledefs, lookedUp |-> lookedUp]
        e1 == IF hosts = <<>> THEN LookupEc2Instances(e0, envType) ELSE e0
    IN  /\ Running
        /\ nsel < MaxEnvSelect
        /\ nsel' = nsel + 1
        /\ settings' = envType
        /\ roledefs' = e1.roledefs
        /\ lookedUp' = e1.lookedUp
        /\ ec2con' = e1.ec2con
        /\ proc' = e1.proc
        /\ Observe(envType, "", <<>>, e1.tr)
        /\ UNCHANGED <<hosts, s3con, staticRan, fs, creds, repo, ec2>>

\* prd()
Prd == SetupEnv("prd")

\* stg()
Stg == SetupEnv("stg")

(***************************************************************************)
(* Tasks.                                                                  *)
(***************************************************************************)
\* The state a task body starts from.
World == [fs |-> fs, tr |-> <<>>, proc |-> proc, s3con |-> s3con, ran |-> staticRan]

\* The state a task body leaves.
Commit(w, task, h, args) ==
    /\ fs' = w.fs
    /\ s3con' = w.s3con
    /\ staticRan' = w.ran
    /\ proc' = w.proc
    /\ Observe(task, h, args, w.tr)
    /\ UNCHANGED <<settings, hosts, roledefs, lookedUp, nsel, ec2con, creds, repo, ec2>>

\* The hosts Fabric may run a task on: those of its @roles, or env.hosts for
\* a task without roles.  With an empty list the task runs once and Fabric
\* asks the user for the host at the first remote command.
TaskHosts(taskRoles) ==
    LET listed == IF taskRoles = {} THEN {hosts[i] : i \in 1..Len(hosts)}
                  ELSE UNION {{roledefs[r][i][2] : i \in 1..Len(roledefs[r])} :
                              r \in taskRoles}
    IN  IF listed = {} THEN Hosts ELSE listed

\* What a user may type for a yes/no argument or at a prompt: '', y, Y, n,
\* N, yes, YES, no, ny and ' y'.
FlagStrings ==
    { <<>>, <<"y">>, <<"Y">>, <<"n">>, <<"N">>, <<"y", "e", "s">>,
      <<"Y", "E", "S">>, <<"n", "o">>, <<"n", "y">>, <<" ", "y">> }

\* The values of deploy's four arguments: y and n, the defaults of the code.
DeployFlags == {<<"y">>, <<"n">>}

\* fab setup
Setup ==
    /\ Running
    /\ \E h \in TaskHosts({App, Work}) :
          Commit(SetupBody(World, h), "setup", h, <<>>)

\* fab hosts
HostsTask ==
    /\ Running
    /\ Commit(HostsBody(World), "hosts", "", <<>>)

\* fab genkey
Genkey ==
    /\ Running
    /\ Commit(GenkeyBody(World), "genkey", "", <<>>)

\* fab checkout
Checkout ==
    /\ Running
    /\ \E h \in TaskHosts({App, Work}) :
          Commit(CheckoutBody(World, h, "top"), "checkout", h, <<>>)

\* fab a2start
A2start ==
    /\ Running
    /\ \E h \in TaskHosts({App}) :
          Commit(A2startBody(World, h, "top"), "a2start", h, <<>>)

\* fab a2stop:graceful=...
A2stop ==
    /\ Running
    /\ \E h \in TaskHosts({App}), graceful \in FlagStrings :
          Commit(A2stopBody(World, h, graceful, "top"), "a2stop", h, <<graceful>>)

\* fab a2restart:graceful=...
A2restart ==
    /\ Running
    /\ \E h \in TaskHosts({App}), graceful \in FlagStrings :
          Commit(A2restartBody(World, h, graceful, "top"), "a2restart", h, <<graceful>>)

\* fab mrostart
Mrostart ==
    /\ Running
    /\ \E h \in TaskHosts({App}) :
          Commit(MrostartBody(World, h, "top"), "mrostart", h, <<>>)

\* fab mrostop
Mrostop ==
    /\ Running
    /\ \E h \in TaskHosts({App}) :
          Commit(MrostopBody(World, h, "top"), "mrostop", h, <<>>)

\* fab deploystatic
Deploystatic ==
    /\ Running
    /\ \E gitClean \in BOOLEAN, nfiles \in 0..MaxStaticFiles :
          Commit(DeploystaticBody(World, gitClean, nfiles, "top"),
                 "deploystatic", "", <<>>)

\* fab deploy:mro=...,restart=...,static=...,requirements=...
Deploy ==
    /\ Running
    /\ \E h \in TaskHosts({}), mro \in DeployFlags, restart \in DeployFlags,
          static \in DeployFlags, requirements \in DeployFlags,
          gitClean \in BOOLEAN, nfiles \in 0..MaxStaticFiles :
          Commit(DeployBody(World, h, mro, restart, static, requirements,
                            gitClean, nfiles),
                 "deploy", h, <<mro, restart, static, requirements>>)

\* fab destroy
Destroy ==
    /\ Running
    /\ \E h \in TaskHosts({App, Work}), answer \in FlagStrings :
          Commit(DestroyBody(World, h, answer), "destroy", h, <<answer>>)

\* A call of the helper _run_in_ve_local
RunInVeLocal ==
    /\ Running
    /\ \E workon \in {"unset", "empty", "set"} :
          Commit(RunInVeLocalBody(World, workon), "_run_in_ve_local", "", <<workon>>)

(***************************************************************************)
(* The fab process.                                                        *)
(***************************************************************************)
\* The instances of the account: two staging and two production servers and
\* one instance without a Name tag.
Inventory ==
    << [hasName |-> TRUE, name |-> <<"s","t","g","-","a","p","p","1">>, dns |-> "h1"],
       [hasName |-> TRUE, name |-> <<"s","t","g","-","w","o","r","k","1">>, dns |-> "h2"],
       [hasName |-> TRUE, name |-> <<"p","r","d","-","a","p","p","1">>, dns |-> "h2"],
       [hasName |-> FALSE, name |-> <<>>, dns |-> "h1"] >>

\* What the repository may hold of the files the script tests for.
RepoVariants ==
    { {"apache", "apache.maintenance", "requirements.txt"},
      {"apache", "apache.maintenance"},
      {"apache.maintenance", "requirements.txt"} }

\* The module is loaded: lines 79-80 and 119-133.
InitProcess ==
    /\ settings = "none"
    /\ roledefs = InitialRoledefs
    /\ lookedUp = FALSE
    /\ nsel = 0
    /\ ec2con = FALSE
    /\ s3con = FALSE
    /\ staticRan = FALSE
    /\ proc = "running"
    /\ observed = NoOp

Init ==
    /\ InitProcess
    /\ hosts \in {<<>>, <<"h1">>}
    /\ fs = [h \in Hosts |-> FreshHost]
    /\ creds \in {"none", "bad", "ok"}
    /\ repo \in RepoVariants
    /\ ec2 = Inventory

Next ==
    \/ Stg \/ Prd
    \/ Setup \/ HostsTask \/ Genkey \/ Checkout
    \/ A2start \/ A2stop \/ A2restart \/ Mrostart \/ Mrostop
    \/ Deploystatic \/ Deploy \/ Destroy \/ RunInVeLocal

Spec == Init /\ [][Next]_vars

(***************************************************************************)
(* The role lookup on its own: a fab process with no -H hosts and working  *)
(* credentials, against any account of up to MaxInstances instances whose  *)
(* Name tags are drawn from SampleTags.                                    *)
(***************************************************************************)
Txt(a, b, c, d) == a \o b \o c \o d

SampleTags ==
    { Txt(<<"s","t","g">>, <<"-">>, App, <<"1">>),                \* stg-app1
      Txt(<<"s","t","g">>, <<"-">>, Work, <<"1","2">>),           \* stg-work12
      Txt(<<"p","r","d">>, <<"-">>, Mongo, <<"3">>),              \* prd-mongo3
      Txt(<<"p","r","d">>, <<"-">>, Pgis, <<"1">>),               \* prd-pgis1
      Txt(<<"s","t","g">>, <<"-">>, <<"w","e","b">>, <<"1">>),    \* stg-web1
      Txt(<<"s","t","g">>, <<"-">>, <<"A","p","p">>, <<"1">>),    \* stg-App1
      Txt(<<"s","t","g">>, <<"-">>, App, <<>>),                   \* stg-app
      Txt(<<"s","t","g">>, <<>>, App, <<"1">>),                   \* stgapp1
      Txt(<<"s","t","g">>, <<"-">>, <<>>, <<"1">>),               \* stg-1
      Txt(<<"s","t","g">>, <<"-">>, App, <<"1","x">>),            \* stg-app1x
      Txt(<<"p","r","d">>, <<"-">>, App, <<"2","-","o","l","d">>),\* prd-app2-old
      Txt(<<"x">>, <<"s","t","g","-">>, App, <<"1">>),            \* xstg-app1
      <<>> }

\* The instances an account may hold: any Name tag of SampleTags, or none.
SampleInstances(dns) ==
    {[hasName |-> TRUE, name |-> t, dns |-> dns] : t \in SampleTags}
      \cup {[hasName |-> FALSE, name |-> <<>>, dns |-> dns]}

\* The public dns name of the i-th instance.
DnsOf(i) == IF i % 2 = 1 THEN "h1" ELSE "h2"

Accounts ==
    UNION {{a \in [1..n -> UNION {SampleInstances(d) : d \in Hosts}] :
              \A i \in 1..n : a[i].dns = DnsOf(i)} : n \in 0..MaxInstances}

InitLookup ==
    /\ InitProcess
    /\ hosts = <<>>
    /\ fs = [h \in Hosts |-> FreshHost]
    /\ creds = "ok"
    /\ repo = {}
    /\ ec2 \in Accounts

NextLookup == Stg \/ Prd

SpecLookup == InitLookup /\ [][NextLookup]_vars

(***************************************************************************)
(* What the claims speak of, read off the recorded task.                   *)
(***************************************************************************)
\* A yes/no text that begins with y or Y.
BeginsWithY(t) == Len(t) >= 1 /\ t[1] \in {"y", "Y"}

\* An entry of a task's record that goes to a remote host.
Remote(e) == e[1] \in {"run", "test", "put"}

Did(e) == \E i \in 1..Len(observed.tr) : observed.tr[i] = e

\* The recorded task ran command c on its host.
Ran(c) == Did(<<"run", observed.host, c>>)

\* The functions the recorded task called itself, in order.
Steps ==
    LET calls == SelectSeq(observed.tr, LAMBDA e : e[1] = "call" /\ e[3] = "top")
    IN  [i \in 1..Len(calls) |-> calls[i][2]]

Stepped(name) == \E i \in 1..Len(Steps) : Steps[i] = name

IsPrefix(a, b) == Len(a) <= Len(b) /\ SubSeq(b, 1, Len(a)) = a

\* The recorded task returned: the process still runs after it.
Returned(task) == observed.task = task /\ proc = "running"

(***************************************************************************)
(* C1.                                                                     *)
(***************************************************************************)
RoleScoped ==
    {"setup", "checkout", "a2start", "a2stop", "a2restart", "mrostart",
     "mrostop", "destroy"}

\* C1: whenever a role-scoped task (setup, checkout, a2start, a2stop,
\* a2restart, mrostart, mrostop, destroy) has issued a remote command, stg or
\* prd has run before it and has filled env.roledefs from the EC2 lookup.
C1_RolesPopulatedBeforeRemote ==
    (observed.task \in RoleScoped
       /\ \E i \in 1..Len(observed.tr) : Remote(observed.tr[i]))
    => (settings \in {"stg", "prd"} /\ lookedUp)

(***************************************************************************)
(* C2.                                                                     *)
(***************************************************************************)
\* The number of digits of s from position i on.
RECURSIVE DigitRun(_, _)
DigitRun(s, i) ==
    IF i <= Len(s) /\ s[i] \in Digits THEN 1 + DigitRun(s, i + 1) ELSE 0

\* The R of a tag that is <env>-<R><N> and nothing more (R letters, N
\* digits, both non-empty); <<>> for every other tag.
TagRole(envText, name) ==
    LET n == Len(envText)
        k == LetterRun(name, n + 2)
        d == DigitRun(name, n + 2 + k)
    IN  IF /\ Len(name) >= n + 1
           /\ SubSeq(name, 1, n) = envText
           /\ name[n + 1] = "-"
           /\ k >= 1
           /\ d >= 1
           /\ n + 1 + k + d = Len(name)
        THEN SubSeq(name, n + 2, n + 1 + k)
        ELSE <<>>

\* The host strings of the instances from position i on whose tag has the
\* form with role R.
RECURSIVE HostsOfForm(_, _, _)
HostsOfForm(R, envText, i) ==
    IF i > Len(ec2) THEN <<>>
    ELSE (IF TagRole(envText, NameTag(ec2[i])) = R THEN <<HostString(ec2[i])>> ELSE <<>>)
           \o HostsOfForm(R, envText, i + 1)

\* What the recorded environment selection appended to the list of role R.
Appended(R) ==
    IF R \in DOMAIN roledefs
    THEN SubSeq(roledefs[R], Len(observed.pre.roledefs[R]) + 1, Len(roledefs[R]))
    ELSE <<>>

\* C2: a lookup appends apps@<public_dns_name> to the list of role R exactly
\* for the instances whose Name tag is <env>-<R><N>; an instance with no Name
\* tag or a tag of another form is added to no list.
C2_RoleListsByTagForm ==
    (observed.task \in {"stg", "prd"} /\ Did(<<"ec2", "get_all_instances", "">>))
    => LET envText == SettingsText(observed.task)
           named == {TagRole(envText, NameTag(ec2[i])) : i \in 1..Len(ec2)} \ {<<>>}
       IN  \A R \in DOMAIN roledefs \cup named :
               Appended(R) = HostsOfForm(R, envText, 1)

(***************************************************************************)
(* C3.                                                                     *)
(***************************************************************************)
\* a2stop and a2restart that returned: the graceful command ran exactly when
\* the flag begins with y or Y, the immediate one otherwise.
GracefulByFlag ==
    /\ Returned("a2stop") =>
          /\ Ran("apache2ctl graceful-stop") <=> BeginsWithY(observed.args[1])
          /\ Ran("apache2ctl stop") <=> ~BeginsWithY(observed.args[1])
    /\ Returned("a2restart") =>
          /\ Ran("apache2ctl graceful") <=> BeginsWithY(observed.args[1])
          /\ Ran("apache2ctl restart") <=> ~BeginsWithY(observed.args[1])

\* A deploy that returned: its steps other than the static sync ran exactly
\* when their flags begin with y or Y.
DeployStepsByFlag ==
    Returned("deploy") =>
        LET mro == BeginsWithY(observed.args[1])
            restart == BeginsWithY(observed.args[2])
            requirements == BeginsWithY(observed.args[4])
        IN  /\ Stepped("mrostart") <=> mro
            /\ Stepped("checkout")
            /\ Stepped("_install_requirements") <=> requirements
            /\ Stepped("mrostop") <=> (restart /\ mro)
            /\ Stepped("a2restart") <=> (restart /\ ~mro)

\* C3 as stated: _do(s) is true exactly when s begins with y or Y, and every
\* flag-controlled step of a2stop, a2restart and deploy runs exactly when _do
\* of its flag is true.
C3_StepsRunExactlyByFlag ==
    /\ GracefulByFlag
    /\ DeployStepsByFlag
    /\ Returned("deploy") =>
          (Stepped("deploystatic") <=> BeginsWithY(observed.args[3]))

\* C3 as amended: the same, but the static sync of deploy runs exactly when
\* its flag begins with y or Y and deploystatic has not yet returned once in
\* this fab process (@runs_once).
C3_StepsRunByFlagOncePerProcess ==
    /\ GracefulByFlag
    /\ DeployStepsByFlag
    /\ Returned("deploy") =>
          (Stepped("deploystatic") <=>
              (BeginsWithY(observed.args[3]) /\ ~observed.pre.staticRan))

\* A deploy with static=y returned in a process in which deploystatic had
\* already run.
C3_Witness ==
    /\ Returned("deploy")
    /\ BeginsWithY(observed.args[3])
    /\ observed.pre.staticRan

(***************************************************************************)
(* C4.                                                                     *)
(***************************************************************************)
\* The steps of deploy in their fixed order, for the given flags; static
\* tells whether the static sync is among them.
ExpectedSteps(args, static) ==
    LET mro == BeginsWithY(args[1])
        restart == BeginsWithY(args[2])
        requirements == BeginsWithY(args[4])
    IN  (IF mro THEN <<"mrostart">> ELSE <<>>)
          \o <<"checkout">>
          \o (IF requirements THEN <<"_install_requirements">> ELSE <<>>)
          \o (IF static THEN <<"deploystatic">> ELSE <<>>)
          \o (IF restart THEN (IF mro THEN <<"mrostop">> ELSE <<"a2restart">>)
              ELSE <<>>)

C5_NoUploadFromDirtyTree ==
    Did(<<"local", "git status", "dirty">>) =>
        \A i \in 1..Len(observed.tr) : observed.tr[i][1] # "s3put"

(***************************************************************************)
(* C6.                                                                     *)
(***************************************************************************)
\* C6: when boto finds no credentials, _get_ec2_con and _get_s3_con print
\* AWS_CREDENTIALS_ERR_MSG and end the process: the failed connect is
\* followed by the message and the exit and by nothing else, and no
\* connection is cached.
C6_NoCredentialsEndsProcess ==
    \A i \in 1..Len(observed.tr) :
        (observed.tr[i][1] = "connect" /\ observed.tr[i][3] = "NoAuthHandlerFound")
        => /\ Len(observed.tr) = i + 2
           /\ observed.tr[i + 1] = <<"print", AwsCredentialsErrMsg, "">>
           /\ observed.tr[i + 2] = <<"exited", "sys.exit", "">>
           /\ proc = "exited"
           /\ observed.tr[i][2] = "ec2" => (~ec2con /\ roledefs = observed.pre.roledefs)
           /\ observed.tr[i][2] = "s3" => ~s3con

\* A setup that got as far as the first missing ssh file and found no
\* credentials for S3.
C6_Witness ==
    /\ observed.task = "setup"
    /\ Did(<<"connect", "s3", "NoAuthHandlerFound">>)
    /\ Did(<<"test", observed.host, "known_hosts">>)

(***************************************************************************)
(* C7.                                                                     *)
(***************************************************************************)
\* C7: with WORKON_HOME unset or empty, _run_in_ve_local aborts with the
\* message 'WORKON_HOME environment variable is not set!' and runs no local
\* command.
C7_AbortsWithoutWorkonHome ==
    (observed.task = "_run_in_ve_local" /\ observed.args[1] \in {"unset", "empty"})
    => /\ proc = "aborted"
       /\ Did(<<"aborted", "WORKON_HOME environment variable is not set!", "">>)
       /\ \A i \in 1..Len(observed.tr) : observed.tr[i][1] # "local"

(***************************************************************************)
(* C8.                                                                     *)
(***************************************************************************)
\* C8: when the answer to destroy's prompt does not begin with y or Y,
\* destroy issues no remote command and every host is as it was; when it
\* does, the Apache link, project_path, log_path and ve_path of the host are
\* gone.
C8_DestroyOnlyWhenConfirmed ==
    (observed.task = "destroy" /\ Did(<<"prompt", "destroy", "">>))
    => IF BeginsWithY(observed.args[1])
       THEN LET f == fs[observed.host]
            IN  f.link = <<>> /\ ~f.project /\ ~f.log /\ f.ve = "absent"
       ELSE /\ \A i \in 1..Len(observed.tr) : ~Remote(observed.tr[i])
            /\ fs = observed.pre.fs

\* A confirmed destroy of a host that had the link, the project, the log
\* directory and the virtualenv.
C8_Witness ==
    /\ Returned("destroy")
    /\ BeginsWithY(observed.args[1])
    /\ LET f == observed.pre.fs[observed.host]
       IN  f.link # <<>> /\ f.project /\ f.log /\ f.ve = "venv"
    /\ Ran("rm apache_link")

(***************************************************************************)
(* C9.                                                                     *)
(***************************************************************************)
\* C9: a deploy that linked the maintenance configuration and returned
\* leaves the Apache link on the normal configuration conf/<env>/apache.
C9_DeployLeavesMaintenance ==
    (Returned("deploy") /\ Ran("ln apache.maintenance"))
    => fs[observed.host].link = <<settings, "apache">>

=============================================================================
